---- MODULE Spec2Model ----
(***************************************************************************)
(* Model of the quorum consensus broadcast protocol of ephemera            *)
(* (broadcast/src/protocols/implementations/quorum_consensus).             *)
(*                                                                         *)
(* The specifications share the engine operators:                          *)
(*   Spec         one engine (node LocalNode) fed arbitrary inbound frames *)
(*                with arbitrary hook outcomes;                            *)
(*   TallySpec    the same, with the broadcasts and committed hook calls   *)
(*                for the ids of CountedIds counted (up to MaxCount);      *)
(*   ClusterSpec  four honest engines A, B, C, D with quorum 3 exchanging  *)
(*                the frames they broadcast for one id proposed at A.      *)
(*                Frames are delivered in any order to A, B and C; D is    *)
(*                the slow node of the straggler scenario: a frame         *)
(*                addressed to D is delivered, in any order, once nothing  *)
(*                is in flight to the other nodes.  Hooks succeed.         *)
(*   ClusterLiveSpec  ClusterSpec in which a frame in flight is eventually *)
(*                delivered;                                               *)
(*   MembershipSpec   one engine with quorum 3 whose hooks succeed and     *)
(*                whose peer discovery may report another peer list        *)
(*                between two frames;                                      *)
(*   LruSpec      one engine whose store holds fewer ids than it is fed;   *)
(*   ViewSpec     the membership view (Memberships) under arbitrary calls  *)
(*                in a build with or without integer overflow checks;      *)
(*   AcceptSpec   MembershipKind::accept applied to arbitrary arguments;   *)
(*   CodecSpec    a request written by the request codec and read back.    *)
(***************************************************************************)
EXTENDS Naturals, FiniteSets, Sequences, TLC

\* ------------------------------------------------------------------ bounds
\* Capacity of the context store in the model (1000 in the code).
CacheCapacity == 1
\* Capacity of the context store in LruSpec (1000 in the code).
LruCapacity == 2
\* Capacity of the snapshot history in ViewSpec (1000 in the code).
HistoryCapacity == 3
\* ViewSpec activates at most this many snapshots (more than the history holds).
MaxActivations == 5
\* AcceptSpec: the largest number of peers.
MaxPeers == 6
\* The tallies of emitted broadcasts / hook calls saturate at this value.
MaxCount == 2

\* ------------------------------------------------------------ the universe
Nodes == {"A", "B", "C", "D"}
LocalNode == "A"
\* the peers whose frames reach LocalNode (a node is not among its own peers)
Senders == {"B", "C"}
Ids == {"m1", "m2"}
\* the ids whose broadcasts and committed hook calls TallySpec counts
CountedIds == {"m1"}
ClusterId == "m1"
Proposer == "A"
SlowNode == "D"
\* the peer lists peer discovery reports to LocalNode in MembershipSpec
PeerSets == {{"B", "C", "D"}, {"B", "D"}}
\* LruSpec: one id more than the store holds, one peer, and the quorum two votes reach
LruIds == {"m1", "m2", "m3"}
LruSender == "B"
LruQuorum == 2
QuorumSizes == {2, 3}
ClusterQuorum == 3
NoFail == "none"
\* ClusterSpec: the payload the client proposes, what the pre_prepare hook of the proposer
\* returns (None, or Some replacement), and the payload of a frame that carries none
ProposedPayload == "x"
HookResults == {"None", "y"}
NoPayload == "none"

VARIABLES
    contexts,   \* per node: the LruCache of ConsensusContext, most recently used first
    quorum,     \* the threshold size of the injected Quorum
    response,   \* the ProtocolResult of the last handle call
    invoked,    \* the hooks the last handle call invoked, and "log_error" if it logged an error
    tally,      \* per counted id: Prepare broadcasts, Commit broadcasts, committed hook calls of LocalNode
    network,    \* ClusterSpec: frames in flight
    proposed,   \* ClusterSpec: the client handed the PrePrepare to the proposer
    discovered, \* per node: the peer list its peer discovery currently returns
    capacity,   \* the capacity the LruCache of contexts was built with
    recent,     \* LruSpec: the ids of the frames handled, the latest first, each id once
    used,       \* LruSpec: the same for the frames that found or created a context;
                \* ViewSpec: the snapshot numbers written or read, the latest first
    produced,   \* ClusterSpec: the payload the pre_prepare hook of the proposer produced
    seen,       \* ClusterSpec: per node, the payloads handed to its prepare hook
    snapshots,  \* Memberships.snapshots, the most recently used entry first
    current,    \* Memberships.current
    pending_membership, \* Memberships.pending_membership: {} for None, {m} for Some(m)
    returned,   \* ViewSpec: the last call on the view, its argument and what it returned
    overflow_checks,    \* ViewSpec: the build checks integer overflow (debug profile)
    activated,  \* ViewSpec: the memberships activated so far, as options; snapshot k at position k + 1
    args,       \* the arguments of the function a specification of a pure function applies
    io,         \* CodecSpec: the bytes written to the stream and not yet read
    result      \* what the function returned

vars == <<contexts, quorum, response, invoked, tally, network, proposed, discovered, capacity, recent, used, produced, seen,
          snapshots, current, pending_membership, returned, overflow_checks, activated,
          args, io, result>>

\* the variables of the specifications of the pure functions
calls == <<args, io, result>>

\* the variables of the membership view
view == <<snapshots, current, pending_membership, returned, overflow_checks, activated>>

\* ------------------------------------------------------ ConsensusContext
ConsensusContext_new(id, original_sender, local_address, peers) ==
    [id |-> id, original_sender |-> original_sender, local_address |-> local_address,
     peers |-> peers, prepare |-> {}, commit |-> {}, prepared |-> FALSE, committed |-> FALSE]

add_prepare(ctx, peer) == [ctx EXCEPT !.prepare = @ \cup {peer}]

add_commit(ctx, peer) == [ctx EXCEPT !.commit = @ \cup {peer}]

\* ------------------------------------------------------ peers and quorum
\* "peer sends PREPARE message to all other peers"
AllOtherPeers == [n \in Nodes |-> Nodes \ {n}]

\* self.peer_discovery.peer_addresses()
peer_addresses(self) == discovered[self]

prepare_threshold(q, votes) == votes >= q

commit_threshold(q, votes) == votes >= q

\* ------------------------------------------------------ the LRU store
RECURSIVE IndexOf(_, _, _)
IndexOf(store, id, i) ==
    IF i > Len(store) THEN 0
    ELSE IF store[i].id = id THEN i
    ELSE IndexOf(store, id, i + 1)

Contains(store, id) == IndexOf(store, id, 1) # 0

Lookup(store, id) == store[IndexOf(store, id, 1)]

Without(store, id) == SelectSeq(store, LAMBDA c : c.id # id)

\* LruCache::get_mut on a stored key: the entry becomes the most recently used
Promote(store, id) == <<Lookup(store, id)>> \o Without(store, id)

\* LruCache::put: replace a stored key, or insert and drop the least recently used on overflow
LruPut_evicts_newest(store, ctx) ==
    IF Contains(store, ctx.id) THEN <<ctx>> \o Without(store, ctx.id)
    ELSE IF Len(store) >= capacity THEN <<ctx>> \o Tail(store)
    ELSE <<ctx>> \o store

LruPut(store, ctx) ==
    IF Contains(store, ctx.id) THEN <<ctx>> \o Without(store, ctx.id)
    ELSE IF Len(store) >= capacity THEN <<ctx>> \o SubSeq(store, 1, capacity - 1)
    ELSE <<ctx>> \o store

\* LruCache::get_or_insert_mut
get_or_insert_mut_replaces(store, ctx) == LruPut(store, ctx)

get_or_insert_mut(store, ctx) ==
    IF Contains(store, ctx.id) THEN Promote(store, ctx.id) ELSE LruPut(store, ctx)

\* write through the &mut reference to the most recently used entry
SetFront(store, ctx) == <<ctx>> \o Tail(store)

\* ------------------------------------------------------ responses
broadcast_reply(id, node_id, peers, msg) ==
    [result |-> "Ok", kind |-> "BROADCAST", peers |-> peers, id |-> id, node_id |-> node_id, rb |-> msg]

prepare_reply(id, node_id, peers) == broadcast_reply(id, node_id, peers, "Prepare")

commit_reply(id, node_id, peers) == broadcast_reply(id, node_id, peers, "Commit")

ack(id, node_id) == broadcast_reply(id, node_id, {}, "Ack")

UnknownBroadcast(id, node_id) ==
    [result |-> "UnknownBroadcast", kind |-> "NONE", peers |-> {}, id |-> id, node_id |-> node_id, rb |-> "None"]

CallbackError(id, node_id) ==
    [result |-> "CallbackError", kind |-> "NONE", peers |-> {}, id |-> id, node_id |-> node_id, rb |-> "None"]

NoResponse ==
    [result |-> "None", kind |-> "NONE", peers |-> {}, id |-> "none", node_id |-> "none", rb |-> "None"]

Outcome(store, resp, hooks) == [contexts |-> store, response |-> resp, invoked |-> hooks]

\* ------------------------------------------------------ the handlers
\* line 184: the pre_prepare hook fails before contexts.put (line 189)
PrePrepareAborted_stores(store, ctx) == LruPut(store, ctx)

PrePrepareAborted(store, ctx) == store

process_pre_prepare(store, self, q, msg_id, sender, fail) ==
    LET ctx == add_prepare(ConsensusContext_new(msg_id, TRUE, self, peer_addresses(self)), self)
    IN  IF fail = "pre_prepare"
        THEN Outcome(PrePrepareAborted(store, ctx), CallbackError(msg_id, self), {"pre_prepare"})
        ELSE Outcome(LruPut(store, ctx), prepare_reply(msg_id, self, ctx.peers), {"pre_prepare"})

\* line 206: a Prepare for a prepared context is only acknowledged
AlreadyPrepared_never(ctx) == FALSE

AlreadyPrepared(ctx) == ctx.prepared

\* line 217: the node has not yet voted PREPARE itself
OwnPrepareMissing_always(ctx, self) == TRUE

OwnPrepareMissing(ctx, self) == self \notin ctx.prepare

\* line 224
PrepareQuorum_counts_twice(ctx, q) == prepare_threshold(q, Cardinality(ctx.prepare) + 1)

PrepareQuorum(ctx, q) == prepare_threshold(q, Cardinality(ctx.prepare))

\* line 263
CommitQuorum_ignores_prepared(ctx, q) == commit_threshold(q, Cardinality(ctx.commit))

CommitQuorum(ctx, q) == ctx.prepared /\ commit_threshold(q, Cardinality(ctx.commit))

\* line 228: the prepared hook fails before add_commit (line 233)
PreparedAborted_votes(ctx, self) == add_commit(ctx, self)

PreparedAborted(ctx, self) == ctx

\* line 267: the committed hook fails after ctx.committed = true (line 266)
CommittedAborted_rolls_back(ctx) == [ctx EXCEPT !.committed = FALSE]

CommittedAborted(ctx) == ctx

process_prepare(store, self, q, msg_id, sender, fail) ==
    LET s0  == get_or_insert_mut(store, ConsensusContext_new(msg_id, FALSE, self, peer_addresses(self)))
        ctx == Head(s0)
        c1  == add_prepare(ctx, sender)
        c2  == add_prepare(c1, self)
        c3  == [c1 EXCEPT !.prepared = TRUE]
        c4  == add_commit(c3, self)
    IN  IF AlreadyPrepared(ctx)
        THEN Outcome(s0, ack(msg_id, self), {})
        ELSE IF fail = "prepare"
        THEN Outcome(SetFront(s0, c1), CallbackError(msg_id, self), {"prepare"})
        ELSE IF OwnPrepareMissing(c1, self)
        THEN Outcome(SetFront(s0, c2), prepare_reply(msg_id, self, c2.peers), {"prepare"})
        ELSE IF PrepareQuorum(c1, q)
        THEN IF fail = "prepared"
             THEN Outcome(SetFront(s0, PreparedAborted(c3, self)), CallbackError(msg_id, self), {"prepare", "prepared"})
             ELSE IF c3.original_sender
             THEN Outcome(SetFront(s0, c4), commit_reply(msg_id, self, c4.peers), {"prepare", "prepared"})
             ELSE Outcome(SetFront(s0, c3), ack(msg_id, self), {"prepare", "prepared"})
        ELSE Outcome(SetFront(s0, c1), ack(msg_id, self), {"prepare"})

\* lines 245-248: no context is stored for the id of the Commit
UnknownCommit_inserts(store, self, msg_id, origin) ==
    Outcome(LruPut(store, add_commit(ConsensusContext_new(msg_id, FALSE, self, peer_addresses(self)), origin)),
            UnknownBroadcast(msg_id, self), {})

UnknownCommit(store, self, msg_id, origin) == Outcome(store, UnknownBroadcast(msg_id, self), {})

process_commit(store, self, q, msg_id, origin, fail) ==
    IF ~Contains(store, msg_id)
    THEN UnknownCommit(store, self, msg_id, origin)
    ELSE
    LET s0  == Promote(store, msg_id)
        ctx == Head(s0)
        c1  == add_commit(ctx, origin)
        c2  == add_commit(c1, self)
        c3  == [c1 EXCEPT !.committed = TRUE]
    IN  IF ctx.committed
        THEN Outcome(s0, ack(msg_id, self), {})
        ELSE IF self \notin c1.commit
        THEN Outcome(SetFront(s0, c2), commit_reply(msg_id, self, c2.peers), {})
        ELSE IF fail = "commit"
        THEN Outcome(SetFront(s0, c1), CallbackError(msg_id, self), {"commit"})
        ELSE IF CommitQuorum(c1, q)
        THEN IF fail = "committed"
             THEN Outcome(SetFront(s0, CommittedAborted(c3)), CallbackError(msg_id, self), {"commit", "committed"})
             ELSE Outcome(SetFront(s0, c3), ack(msg_id, self), {"commit", "committed"})
        ELSE Outcome(SetFront(s0, c1), ack(msg_id, self), {"commit"})

\* lines 163-167: any other message (Ack) is logged and refused
unknown_message_drops(store, self, rb_id) ==
    Outcome(Without(store, rb_id), UnknownBroadcast(rb_id, self), {"log_error"})

unknown_message(store, self, rb_id) == Outcome(store, UnknownBroadcast(rb_id, self), {"log_error"})

handle_message(store, self, q, kind, rb_id, node_id, fail) ==
    CASE kind = "PrePrepare" -> process_pre_prepare(store, self, q, rb_id, node_id, fail)
      [] kind = "Prepare"    -> process_prepare(store, self, q, rb_id, node_id, fail)
      [] kind = "Commit"     -> process_commit(store, self, q, rb_id, node_id, fail)
      [] OTHER               -> unknown_message(store, self, rb_id)

\* ------------------------------------------------------ the pure functions
NoResult == [op |-> "none"]

\* nothing is written to the stream
NoIo == [written |-> FALSE]

NoCalls ==
    /\ args = [op |-> "none"]
    /\ io = NoIo
    /\ result = NoResult

\* ------------------------------------------------------ the membership view
\* an Option<Membership> is the empty set (None) or a singleton (Some)
None == {}

Some(m) == {m}

\* Membership::new_with_local: no peer is active yet
new_with_local(all_members) == [all_members |-> all_members, active_members |-> {}]

\* Membership::new(Default::default()), the first snapshot
Membership_new == [all_members |-> {}, active_members |-> {}]

\* the memberships peer discovery hands to the view
NewMemberships == {new_with_local({"B"}), new_with_local({"B", "C"})}

\* an entry of the snapshot cache, keyed by its number
Snapshot(number, membership) == [id |-> number, membership |-> membership]

Memberships_new ==
    [snapshots |-> <<Snapshot(0, Membership_new)>>, current |-> 0, pending_membership |-> None]

\* the counter is a u64; the model keeps 16 bits of it (the counter stays below MaxActivations)
CounterModulus == 65536

\* a - b on the counter in a build without overflow checks
wrapping_sub(a, b) == (a + CounterModulus - b) % CounterModulus

\* LruCache::get: the value of a stored key, which becomes the most recently used
snapshots_get_keeps_order(store, key) == store

snapshots_get(store, key) == IF Contains(store, key) THEN Promote(store, key) ELSE store

get_value(store, key) == IF Contains(store, key) THEN Some(Lookup(store, key).membership) ELSE None

\* what a call leaves behind: the view, the value it returned, whether it panicked
Returns(self, value) == [self |-> self, value |-> value, panicked |-> FALSE]

Panics(self) == [self |-> self, value |-> None, panicked |-> TRUE]

\* snapshots.get(&self.current).unwrap()
Memberships_current(self) ==
    IF Contains(self.snapshots, self.current)
    THEN Returns([self EXCEPT !.snapshots = snapshots_get(@, self.current)],
                 get_value(self.snapshots, self.current))
    ELSE Panics(self)

\* snapshots.get(&(self.current - 1)): at counter 0 the subtraction panics in a build
\* with overflow checks and wraps in a build without
Memberships_previous(self, checks) ==
    IF self.current = 0 /\ checks THEN Panics(self)
    ELSE LET key == wrapping_sub(self.current, 1)
         IN  Returns([self EXCEPT !.snapshots = snapshots_get(@, key)], get_value(self.snapshots, key))

\* self.current += 1; self.snapshots.put(self.current, membership)
update_without_put(self, membership) == Returns([self EXCEPT !.current = @ + 1], None)

update(self, membership) ==
    Returns([self EXCEPT !.current = @ + 1,
                         !.snapshots = LruPut(@, Snapshot(self.current + 1, membership))], None)

set_pending_if_empty(self, membership) ==
    Returns([self EXCEPT !.pending_membership = IF @ = None THEN Some(membership) ELSE @], None)

set_pending(self, membership) == Returns([self EXCEPT !.pending_membership = Some(membership)], None)

\* self.pending_membership.take()
remove_pending_keeps(self) == Returns(self, self.pending_membership)

remove_pending(self) == Returns([self EXCEPT !.pending_membership = None], self.pending_membership)

pending(self) == Returns(self, self.pending_membership)

pending_mut(self) == Returns(self, self.pending_membership)

\* activation, as the specification describes it: the pending snapshot is taken and
\* installed as the current one; nothing happens when no snapshot is pending
activate_pending(self) ==
    LET taken == remove_pending(self)
    IN  IF taken.value = None THEN Returns(self, None)
        ELSE LET membership == CHOOSE m \in taken.value : TRUE
             IN  Returns(update(taken.self, membership).self, taken.value)

\* the view as one value, and the state of a view nobody has called yet
Memberships == [snapshots |-> snapshots, current |-> current, pending_membership |-> pending_membership]

NoCall == [op |-> "new", arg |-> None, value |-> None, panicked |-> FALSE]

NewView ==
    /\ snapshots = Memberships_new.snapshots
    /\ current = Memberships_new.current
    /\ pending_membership = Memberships_new.pending_membership
    /\ returned = NoCall
    /\ overflow_checks = FALSE
    /\ activated = <<Some(Membership_new)>>

\* ------------------------------------------------------ bookkeeping
Bump(n) == IF n < MaxCount THEN n + 1 ELSE MaxCount

Tallied(t, resp, hooks) ==
    IF resp.id \notin DOMAIN t THEN t ELSE
    [t EXCEPT ![resp.id] =
        [prepare   |-> IF resp.rb = "Prepare" THEN Bump(@.prepare) ELSE @.prepare,
         commit    |-> IF resp.rb = "Commit" THEN Bump(@.commit) ELSE @.commit,
         committed |-> IF "committed" \in hooks THEN Bump(@.committed) ELSE @.committed]]

\* ------------------------------------------------------ Spec: one engine, any frames
Init ==
    /\ contexts = [n \in Nodes |-> <<>>]
    /\ quorum \in QuorumSizes
    /\ response = NoResponse
    /\ invoked = {}
    /\ tally = [i \in CountedIds |-> [prepare |-> 0, commit |-> 0, committed |-> 0]]
    /\ network = {}
    /\ proposed = FALSE
    /\ discovered = AllOtherPeers
    /\ capacity = CacheCapacity
    /\ recent = <<>>
    /\ used = <<>>
    /\ produced = NoPayload
    /\ seen = [n \in Nodes |-> {}]
    /\ NewView
    /\ NoCalls

Handle(kind, id, sender, fail) ==
    LET out == handle_message(contexts[LocalNode], LocalNode, quorum, kind, id, sender, fail)
    IN  /\ contexts' = [contexts EXCEPT ![LocalNode] = out.contexts]
        /\ response' = out.response
        /\ invoked' = out.invoked
        /\ UNCHANGED <<quorum, network, proposed, discovered, capacity, view, calls>>

PrePrepareFrame == \E id \in Ids, fail \in {NoFail, "pre_prepare"} :
    Handle("PrePrepare", id, LocalNode, fail)

PrepareFrame == \E id \in Ids, sender \in Senders, fail \in {NoFail, "prepare", "prepared"} :
    Handle("Prepare", id, sender, fail)

CommitFrame == \E id \in Ids, sender \in Senders, fail \in {NoFail, "commit", "committed"} :
    Handle("Commit", id, sender, fail)

AckFrame == \E id \in Ids, sender \in Senders :
    Handle("Ack", id, sender, NoFail)

HandlePrePrepare == PrePrepareFrame /\ UNCHANGED <<tally, recent, used, produced, seen>>

HandlePrepare == PrepareFrame /\ UNCHANGED <<tally, recent, used, produced, seen>>

HandleCommit == CommitFrame /\ UNCHANGED <<tally, recent, used, produced, seen>>

HandleAck == AckFrame /\ UNCHANGED <<tally, recent, used, produced, seen>>

Next == HandlePrePrepare \/ HandlePrepare \/ HandleCommit \/ HandleAck

Spec == Init /\ [][Next]_vars

\* ------------------------------------------------------ TallySpec: Spec with the emissions counted
Tallying == tally' = Tallied(tally, response', invoked') /\ UNCHANGED <<recent, used, produced, seen>>

TallyPrePrepare == PrePrepareFrame /\ Tallying

TallyPrepare == PrepareFrame /\ Tallying

TallyCommit == CommitFrame /\ Tallying

TallyAck == AckFrame /\ Tallying

TallyNext == TallyPrePrepare \/ TallyPrepare \/ TallyCommit \/ TallyAck

TallySpec == Init /\ [][TallyNext]_vars

\* ------------------------------------------------------ ClusterSpec: four honest engines
Frame(kind, id, from, to, payload) ==
    [kind |-> kind, id |-> id, node_id |-> from, to |-> to, payload |-> payload]

\* callback_result.unwrap_or(payload): the payload the hook returned, or the one it was given
unwrap_or_payload(callback_result, payload) == payload

unwrap_or(callback_result, payload) == IF callback_result = "None" THEN payload ELSE callback_result

\* the dispatcher sends a BROADCAST response to every peer of its peer list; a Prepare
\* carries the payload, a Commit carries none
Outbound(resp, payload) ==
    IF resp.result = "Ok" /\ resp.kind = "BROADCAST"
    THEN {Frame(resp.rb, resp.id, resp.node_id, p, IF resp.rb = "Prepare" THEN payload ELSE NoPayload) :
            p \in resp.peers}
    ELSE {}

ClusterInit ==
    /\ contexts = [n \in Nodes |-> <<>>]
    /\ quorum = ClusterQuorum
    /\ response = NoResponse
    /\ invoked = {}
    /\ tally = [i \in CountedIds |-> [prepare |-> 0, commit |-> 0, committed |-> 0]]
    /\ network = {}
    /\ proposed = FALSE
    /\ discovered = AllOtherPeers
    /\ capacity = CacheCapacity
    /\ recent = <<>>
    /\ used = <<>>
    /\ produced = NoPayload
    /\ seen = [n \in Nodes |-> {}]
    /\ NewView
    /\ NoCalls

\* the pre_prepare hook returns r; the Prepare carries unwrap_or(r, payload) (lines 186, 191)
Propose ==
    /\ ~proposed
    /\ \E r \in HookResults :
        LET out == handle_message(contexts[Proposer], Proposer, quorum, "PrePrepare", ClusterId, Proposer, NoFail)
        IN  /\ contexts' = [contexts EXCEPT ![Proposer] = out.contexts]
            /\ network' = network \cup Outbound(out.response, unwrap_or(r, ProposedPayload))
            /\ produced' = IF r = "None" THEN ProposedPayload ELSE r
    /\ proposed' = TRUE
    /\ UNCHANGED <<quorum, response, invoked, tally, discovered, capacity, recent, used, seen, view, calls>>

\* the prepare hook keeps the payload (returns None); the Prepare the node broadcasts carries
\* unwrap_or(None, payload) (lines 215, 221)
Receive(f) ==
    LET out == handle_message(contexts[f.to], f.to, quorum, f.kind, f.id, f.node_id, NoFail)
    IN  /\ contexts' = [contexts EXCEPT ![f.to] = out.contexts]
        /\ network' = (network \ {f}) \cup Outbound(out.response, unwrap_or("None", f.payload))
        /\ seen' = IF "prepare" \in out.invoked THEN [seen EXCEPT ![f.to] = @ \cup {f.payload}] ELSE seen
        /\ UNCHANGED <<quorum, response, invoked, tally, proposed, discovered, capacity, recent, used, produced, view, calls>>

Deliver == \E f \in network : f.to # SlowNode /\ Receive(f)

DeliverSlow == \E f \in network :
    /\ f.to = SlowNode
    /\ \A g \in network : g.to = SlowNode
    /\ Receive(f)

ClusterNext == Propose \/ Deliver \/ DeliverSlow

ClusterSpec == ClusterInit /\ [][ClusterNext]_vars

\* the transport delivers every frame it was handed
ClusterLiveSpec == ClusterSpec /\ WF_vars(ClusterNext)

\* ------------------------------------------------------ MembershipSpec: Spec with a changing peer list
\* hooks succeed and the quorum is ClusterQuorum
MembershipInit == Init /\ quorum = ClusterQuorum

MembershipChange ==
    /\ \E ps \in PeerSets \ {discovered[LocalNode]} :
            discovered' = [discovered EXCEPT ![LocalNode] = ps]
    /\ UNCHANGED <<contexts, quorum, response, invoked, tally, network, proposed, capacity, recent, used, produced, seen, view, calls>>

MemberPrePrepare == \E id \in Ids :
    Handle("PrePrepare", id, LocalNode, NoFail) /\ UNCHANGED <<tally, recent, used, produced, seen>>

MemberPrepare == \E id \in Ids, sender \in Senders :
    Handle("Prepare", id, sender, NoFail) /\ UNCHANGED <<tally, recent, used, produced, seen>>

MemberCommit == \E id \in Ids, sender \in Senders :
    Handle("Commit", id, sender, NoFail) /\ UNCHANGED <<tally, recent, used, produced, seen>>

MembershipNext == MemberPrePrepare \/ MemberPrepare \/ MemberCommit \/ HandleAck \/ MembershipChange

MembershipSpec == MembershipInit /\ [][MembershipNext]_vars

\* ------------------------------------------------------ LruSpec: one engine, more ids than the store holds
LruInit ==
    /\ contexts = [n \in Nodes |-> <<>>]
    /\ quorum = LruQuorum
    /\ response = NoResponse
    /\ invoked = {}
    /\ tally = [i \in CountedIds |-> [prepare |-> 0, commit |-> 0, committed |-> 0]]
    /\ network = {}
    /\ proposed = FALSE
    /\ discovered = AllOtherPeers
    /\ capacity = LruCapacity
    /\ recent = <<>>
    /\ used = <<>>
    /\ produced = NoPayload
    /\ seen = [n \in Nodes |-> {}]
    /\ NewView
    /\ NoCalls

\* the id of the frame being handled becomes the latest
Latest(ids, id) == <<id>> \o SelectSeq(ids, LAMBDA i : i # id)

\* a frame reaches the store unless its pre_prepare hook fails (line 184) or it is a Commit
\* for an id without a context (lines 245-248)
LruHandle(kind, id, sender, fail) ==
    /\ Handle(kind, id, sender, fail)
    /\ recent' = Latest(recent, id)
    /\ used' = IF fail # "pre_prepare" /\ (kind = "Commit" => Contains(contexts[LocalNode], id))
               THEN Latest(used, id) ELSE used
    /\ UNCHANGED <<tally, produced, seen>>

LruPrePrepare == \E id \in LruIds, fail \in {NoFail, "pre_prepare"} :
    LruHandle("PrePrepare", id, LocalNode, fail)

LruPrepare == \E id \in LruIds : LruHandle("Prepare", id, LruSender, NoFail)

LruCommit == \E id \in LruIds : LruHandle("Commit", id, LruSender, NoFail)

LruNext == LruPrePrepare \/ LruPrepare \/ LruCommit

LruSpec == LruInit /\ [][LruNext]_vars

\* ------------------------------------------------------ ViewSpec: the membership view alone
ViewInit ==
    /\ contexts = [n \in Nodes |-> <<>>]
    /\ quorum = ClusterQuorum
    /\ response = NoResponse
    /\ invoked = {}
    /\ tally = [i \in CountedIds |-> [prepare |-> 0, commit |-> 0, committed |-> 0]]
    /\ network = {}
    /\ proposed = FALSE
    /\ discovered = AllOtherPeers
    /\ capacity = HistoryCapacity
    /\ recent = <<>>
    /\ used = <<Memberships_new.current>>
    /\ produced = NoPayload
    /\ seen = [n \in Nodes |-> {}]
    /\ snapshots = Memberships_new.snapshots
    /\ current = Memberships_new.current
    /\ pending_membership = Memberships_new.pending_membership
    /\ returned = NoCall
    /\ overflow_checks \in BOOLEAN
    /\ activated = <<Some(Membership_new)>>
    /\ NoCalls

\* the snapshot numbers a call writes, or reads and finds
Touches(op) ==
    CASE op = "current" -> {current}
      [] op = "previous" ->
            IF current = 0 /\ overflow_checks THEN {}
            ELSE {k \in {wrapping_sub(current, 1)} : Contains(snapshots, k)}
      [] op \in {"update", "activate_pending"} -> {current + 1}
      [] OTHER -> {}

\* one call on the view; a panic ends the program
Call(op, arg, out) ==
    /\ ~returned.panicked
    /\ snapshots' = out.self.snapshots
    /\ current' = out.self.current
    /\ pending_membership' = out.self.pending_membership
    /\ returned' = [op |-> op, arg |-> arg, value |-> out.value, panicked |-> out.panicked]
    /\ activated' = IF out.self.current = current THEN activated ELSE Append(activated, arg)
    /\ used' = IF Touches(op) = {} THEN used ELSE Latest(used, CHOOSE k \in Touches(op) : TRUE)
    /\ UNCHANGED <<contexts, quorum, response, invoked, tally, network, proposed, discovered,
                   capacity, recent, produced, seen, overflow_checks, calls>>

Current == Call("current", None, Memberships_current(Memberships))

Previous == Call("previous", None, Memberships_previous(Memberships, overflow_checks))

Update == \E m \in NewMemberships :
    current < MaxActivations /\ Call("update", Some(m), update(Memberships, m))

SetPending == \E m \in NewMemberships : Call("set_pending", Some(m), set_pending(Memberships, m))

RemovePending == Call("remove_pending", None, remove_pending(Memberships))

Pending == Call("pending", None, pending(Memberships))

PendingMut == Call("pending_mut", None, pending_mut(Memberships))

ActivatePending ==
    /\ current < MaxActivations
    /\ pending_membership # None
    /\ Call("activate_pending", pending_membership, activate_pending(Memberships))

ViewNext ==
    \/ Current
    \/ Previous
    \/ Update
    \/ SetPending
    \/ RemovePending
    \/ Pending
    \/ PendingMut
    \/ ActivatePending

ViewSpec == ViewInit /\ [][ViewNext]_vars

\* ------------------------------------------------------ f64 arithmetic
\* An f64 is mantissa * 2^exponent. The mantissa has at most 53 significant bits and is
\* kept as a sequence of limbs of 12 bits, the least significant limb first.
MantissaBits == 53

LimbBits == 12

LimbBase == 4096

LimbCount == 5

\* bit i of x, bit 0 the least significant
BitAt(x, i) ==
    IF (i \div LimbBits) + 1 > Len(x) THEN 0
    ELSE (x[(i \div LimbBits) + 1] \div (2 ^ (i % LimbBits))) % 2

\* the number of significant bits of x
BitLen(x) ==
    IF \A i \in 0..(LimbBits * Len(x) - 1) : BitAt(x, i) = 0 THEN 0
    ELSE 1 + CHOOSE i \in 0..(LimbBits * Len(x) - 1) :
                /\ BitAt(x, i) = 1
                /\ \A k \in (i + 1)..(LimbBits * Len(x) - 1) : BitAt(x, k) = 0

\* x shifted right by r bits
ShiftRight(x, r) ==
    LET limb(k) == IF k > Len(x) THEN 0 ELSE x[k]
        q == r \div LimbBits
        s == r % LimbBits
    IN  [j \in 1..Len(x) |->
            (limb(j + q) \div (2 ^ s)) + (limb(j + q + 1) % (2 ^ s)) * (2 ^ (LimbBits - s))]

\* the value of a mantissa that fits three limbs
ToNat(x) == x[1] + LimbBase * x[2] + LimbBase * LimbBase * x[3]

\* a mantissa written as hexadecimal digits, the most significant first
FromHex(digits) ==
    LET digit(k) == IF k < Len(digits) THEN digits[Len(digits) - k] ELSE 0
    IN  [j \in 1..LimbCount |-> digit(3 * j - 3) + 16 * digit(3 * j - 2) + 256 * digit(3 * j - 1)]

\* x * n for a small n, from the least significant limb upwards
RECURSIVE MulCarry(_, _, _, _)
MulCarry(x, n, j, carry) ==
    IF j > Len(x) THEN <<>>
    ELSE LET v == x[j] * n + carry
         IN  <<v % LimbBase>> \o MulCarry(x, n, j + 1, v \div LimbBase)

RECURSIVE AddCarry(_, _, _)
AddCarry(x, j, carry) ==
    IF j > Len(x) THEN <<>>
    ELSE LET v == x[j] + carry
         IN  <<v % LimbBase>> \o AddCarry(x, j + 1, v \div LimbBase)

\* total as f64: exact for every usize below 2^53
from_usize(n) ==
    [mantissa |-> [j \in 1..LimbCount |->
                      IF j = 1 THEN n % LimbBase
                      ELSE IF j = 2 THEN (n \div LimbBase) % LimbBase
                      ELSE IF j = 3 THEN n \div (LimbBase * LimbBase)
                      ELSE 0],
     exponent |-> 0]

\* the product before it is rounded
ExactProduct(a, b) ==
    [mantissa |-> MulCarry(b.mantissa, ToNat(a.mantissa), 1, 0), exponent |-> a.exponent + b.exponent]

\* an f64 holds 53 significant bits: round to nearest, ties to even
RoundToNearestEven(x) ==
    IF BitLen(x.mantissa) <= MantissaBits THEN x
    ELSE LET r == BitLen(x.mantissa) - MantissaBits
             kept == ShiftRight(x.mantissa, r)
             half == BitAt(x.mantissa, r - 1) = 1
             sticky == \E i \in 0..(r - 2) : BitAt(x.mantissa, i) = 1
             up == half /\ (sticky \/ BitAt(kept, 0) = 1)
         IN  [mantissa |-> IF up THEN AddCarry(kept, 1, 1) ELSE kept, exponent |-> x.exponent + r]

\* a * b on f64, a a small whole number
f64_mul(a, b) == RoundToNearestEven(ExactProduct(a, b))

\* x as usize for x >= 0: the fraction is dropped (the values of the model stay far below usize::MAX)
as_usize(x) ==
    IF x.exponent >= 0 THEN ToNat(x.mantissa) * (2 ^ x.exponent)
    ELSE ToNat(ShiftRight(x.mantissa, 0 - x.exponent))

\* ------------------------------------------------------ MembershipKind
AnyOnline == [kind |-> "AnyOnline", threshold |-> from_usize(0)]

Threshold(ratio) == [kind |-> "Threshold", threshold |-> ratio]

\* the f64 values 0.0, 1/3, 0.5, 0.6 and 1.0
MembershipKinds == {AnyOnline} \cup {Threshold(r) : r \in {
    from_usize(0),
    [mantissa |-> FromHex(<<1, 5, 5, 5, 5, 5, 5, 5, 5, 5, 5, 5, 5, 5>>), exponent |-> 0 - 54],
    [mantissa |-> FromHex(<<1, 0, 0, 0, 0, 0, 0, 0, 0, 0, 0, 0, 0, 0>>), exponent |-> 0 - 53],
    [mantissa |-> FromHex(<<1, 3, 3, 3, 3, 3, 3, 3, 3, 3, 3, 3, 3, 3>>), exponent |-> 0 - 53],
    [mantissa |-> FromHex(<<1, 0, 0, 0, 0, 0, 0, 0, 0, 0, 0, 0, 0, 0>>), exponent |-> 0 - 52] }}

\* MembershipKind::accept
accept(self, connected_peers, total_number_of_peers) ==
    IF self.kind = "Threshold"
    THEN LET minimum_available_nodes == as_usize(f64_mul(from_usize(total_number_of_peers), self.threshold))
         IN  connected_peers >= minimum_available_nodes
    ELSE connected_peers > 0

\* ------------------------------------------------------ AcceptSpec: the acceptance policy
\* no engine and no view take part in the specifications of the pure functions
NoEngine ==
    /\ contexts = [n \in Nodes |-> <<>>]
    /\ quorum = ClusterQuorum
    /\ response = NoResponse
    /\ invoked = {}
    /\ tally = [i \in CountedIds |-> [prepare |-> 0, commit |-> 0, committed |-> 0]]
    /\ network = {}
    /\ proposed = FALSE
    /\ discovered = AllOtherPeers
    /\ capacity = CacheCapacity
    /\ recent = <<>>
    /\ used = <<>>
    /\ produced = NoPayload
    /\ seen = [n \in Nodes |-> {}]

engine == <<contexts, quorum, response, invoked, tally, network, proposed, discovered,
            capacity, recent, used, produced, seen>>

AcceptInit ==
    /\ NoEngine
    /\ NewView
    /\ args \in [self : MembershipKinds, connected_peers : 0..MaxPeers, total_number_of_peers : 0..MaxPeers]
    /\ io = NoIo
    /\ result = NoResult

Accept ==
    /\ result = NoResult
    /\ result' = [op |-> "accept", value |-> accept(args.self, args.connected_peers, args.total_number_of_peers)]
    /\ UNCHANGED <<engine, view, args, io>>

AcceptNext == Accept

AcceptSpec == AcceptInit /\ [][AcceptNext]_vars

\* ------------------------------------------------------ CodecSpec: the request codec
\* a request and the length of its JSON text in bytes (which grows with the payload), around
\* the limits of the varint and of the frame
Requests ==
    [id : Ids, node_id : Senders, rb : {"PrePrepare", "Prepare", "Commit", "Ack"},
     json_len : {0, 1, 127, 128, 300, 16383, 16384, 1048575, 1048576, 1048577, 2097152}]

\* the limit read_request and read_response pass to read_length_prefixed
max_size == 1024 * 1024

\* serde_json::to_vec: the text determines the value, which from_slice reads back from it
to_vec(req) == [len |-> req.json_len, value |-> req]

\* write_varint (unsigned_varint::encode::u32): groups of 7 bits, the lowest first, the top
\* bit set on every byte but the last; the model's lengths are below 2^31, where
\* len() as u32 keeps the value
RECURSIVE write_varint(_)
write_varint(len) == IF len < 128 THEN <<len>> ELSE <<128 + (len % 128)>> \o write_varint(len \div 128)

\* unsigned_varint::decode::u32 on the bytes read so far, from byte i on, n decoded before it
RECURSIVE decode_u32(_, _, _)
decode_u32(buf, i, n) ==
    IF i > Len(buf) THEN [tag |-> "Insufficient", len |-> 0]
    ELSE LET b == buf[i]
             m == n + (b % 128) * (128 ^ (i - 1))
         IN  IF b < 128
             THEN IF b = 0 /\ i > 1 THEN [tag |-> "NotMinimal", len |-> 0] ELSE [tag |-> "Ok", len |-> m]
             ELSE IF i = 5 THEN [tag |-> "Overflow", len |-> 0]
             ELSE decode_u32(buf, i + 1, m)

write_length_prefixed(data) == [written |-> TRUE, len_data |-> write_varint(data.len), data |-> data]

\* read_varint: one byte at a time until the bytes read decode
RECURSIVE read_varint(_, _)
read_varint(stream, buffer_len) ==
    IF buffer_len > Len(stream.len_data) THEN [tag |-> "UnexpectedEof", len |-> 0]
    ELSE LET decoded == decode_u32(SubSeq(stream.len_data, 1, buffer_len), 1, 0)
         IN  IF decoded.tag = "Insufficient" THEN read_varint(stream, buffer_len + 1)
             ELSE IF decoded.tag = "Ok" THEN decoded
             ELSE [tag |-> "InvalidData", len |-> 0]

Failed(error) ==
    [ok |-> FALSE, error |-> error,
     data |-> to_vec([id |-> "none", node_id |-> "none", rb |-> "None", json_len |-> 0])]

\* read_length_prefixed: read_exact fills the buffer only if the stream holds that many bytes
read_length_prefixed(stream, limit) ==
    LET len == read_varint(stream, 1)
    IN  IF len.tag # "Ok" THEN Failed(len.tag)
        ELSE IF len.len > limit THEN Failed("Message too large")
        ELSE IF len.len # stream.data.len THEN Failed("UnexpectedEof")
        ELSE [ok |-> TRUE, error |-> "none", data |-> stream.data]

write_request(req) == write_length_prefixed(to_vec(req))

read_request(stream) ==
    LET data == read_length_prefixed(stream, max_size)
    IN  [op |-> "read_request", ok |-> data.ok, error |-> data.error, msg |-> data.data.value]

CodecInit ==
    /\ NoEngine
    /\ NewView
    /\ args \in [req : Requests]
    /\ io = NoIo
    /\ result = NoResult

WriteRequest ==
    /\ io = NoIo
    /\ result = NoResult
    /\ io' = write_request(args.req)
    /\ UNCHANGED <<engine, view, args, result>>

ReadRequest ==
    /\ io # NoIo
    /\ result' = read_request(io)
    /\ io' = NoIo
    /\ UNCHANGED <<engine, view, args>>

CodecNext == WriteRequest \/ ReadRequest

CodecSpec == CodecInit /\ [][CodecNext]_vars

\* ------------------------------------------------------ observations
\* the stored ids of a store, most recently used first
StoredIds(store) == [i \in 1..Len(store) |-> store[i].id]

\* the id the next overflow evicts
LeastRecentlyUsed(store) == store[Len(store)].id

Ctxs(n) == {contexts[n][i] : i \in 1..Len(contexts[n])}

Stored == UNION {Ctxs(n) : n \in Nodes}

Has(cs, n, id) == Contains(cs[n], id)

CtxOf(cs, n, id) == Lookup(cs[n], id)

Quiescent == proposed /\ network = {}

Committed(n) == Has(contexts, n, ClusterId) /\ CtxOf(contexts, n, ClusterId).committed

CommittedNodes == {n \in Nodes : Committed(n)}

\* ------------------------------------------------------ claims

\* C1 (ClusterSpec): quorum-or-none delivery. Once every frame in flight has been
\* delivered, the number of nodes that have the id committed is 0 or at least the quorum.
QuorumOrNone ==
    Quiescent => (Cardinality(CommittedNodes) = 0 \/ Cardinality(CommittedNodes) >= quorum)

\* C2 (Spec): every stored context that is committed is prepared.
CommittedImpliesPrepared == \A c \in Stored : c.committed => c.prepared

CommittedContextStored == \E c \in Ctxs(LocalNode) : c.committed /\ c.prepared

\* C3 (Spec): every stored context that is prepared holds at least quorum prepare votes.
PreparedHasQuorum == \A c \in Stored : c.prepared => Cardinality(c.prepare) >= quorum

PreparedAtExactQuorum ==
    /\ \E c \in Ctxs(LocalNode) : c.prepared /\ Cardinality(c.prepare) = quorum
    /\ response.rb \in {"Ack", "Commit"}

\* C4 (Spec): after every engine step a stored context whose prepare votes have reached
\* the quorum is prepared.
QuorumImpliesPrepared == \A c \in Stored : Cardinality(c.prepare) >= quorum => c.prepared

\* C5 (Spec): when a handle call whose hooks succeed brings the commit votes of a prepared,
\* not yet committed context to exactly the quorum, that call sets committed and invokes the
\* committed hook; a call that leaves the votes below the quorum does not commit.
CommitQuorumCommits ==
    [][\A id \in Ids :
        (/\ Has(contexts, LocalNode, id) /\ Has(contexts', LocalNode, id)
         /\ CtxOf(contexts, LocalNode, id).prepared
         /\ ~CtxOf(contexts, LocalNode, id).committed
         /\ Cardinality(CtxOf(contexts, LocalNode, id).commit) < quorum
         /\ ~(response'.result = "CallbackError" /\ "committed" \notin invoked'))
        => /\ Cardinality(CtxOf(contexts', LocalNode, id).commit) = quorum
                => (CtxOf(contexts', LocalNode, id).committed /\ "committed" \in invoked')
           /\ Cardinality(CtxOf(contexts', LocalNode, id).commit) < quorum
                => ~CtxOf(contexts', LocalNode, id).committed]_vars

\* C6 (TallySpec): a node returns a BROADCAST Prepare for an id at most once.
AtMostOnePrepare == \A i \in CountedIds : tally[i].prepare <= 1

\* C7 (TallySpec): a node returns a BROADCAST Commit for an id at most once.
AtMostOneCommit == \A i \in CountedIds : tally[i].commit <= 1

\* C8 (TallySpec): the committed hook is invoked at most once per id.
AtMostOneCommitted == \A i \in CountedIds : tally[i].committed <= 1

\* C9 (ClusterSpec): happy path. After A handled the PrePrepare and every frame has been
\* delivered, each of the four nodes has the id committed.
HappyPathAllCommitted == Quiescent => \A n \in Nodes : Committed(n)

StragglerCatchesUp ==
    (Committed("A") /\ Committed("B") /\ Committed("C")) ~> Committed(SlowNode)

\* C12 (MembershipSpec): the prepare votes and the commit votes of every stored context
\* come from the peers of the context or from the node itself.
VotesFromMembers ==
    \A c \in Stored :
        /\ c.prepare \subseteq c.peers \cup {c.local_address}
        /\ c.commit \subseteq c.peers \cup {c.local_address}

NeverBackward ==
    [][\A id \in Ids :
        (Has(contexts, LocalNode, id) /\ Has(contexts', LocalNode, id))
        => /\ CtxOf(contexts, LocalNode, id).prepared => CtxOf(contexts', LocalNode, id).prepared
           /\ CtxOf(contexts, LocalNode, id).committed => CtxOf(contexts', LocalNode, id).committed
           /\ CtxOf(contexts, LocalNode, id).prepare \subseteq CtxOf(contexts', LocalNode, id).prepare
           /\ CtxOf(contexts, LocalNode, id).commit \subseteq CtxOf(contexts', LocalNode, id).commit]_vars

\* C15 (Spec): once a context is committed, a frame of any kind leaves it unchanged for as
\* long as it is stored, and the node returns no Prepare or Commit broadcast for its id.
CommittedIsFinal ==
    [][\A id \in Ids :
        (Has(contexts, LocalNode, id) /\ CtxOf(contexts, LocalNode, id).committed)
        => /\ Has(contexts', LocalNode, id)
                => CtxOf(contexts', LocalNode, id) = CtxOf(contexts, LocalNode, id)
           /\ ~(response'.id = id /\ response'.rb \in {"Prepare", "Commit"})]_vars

\* C16 (Spec): replay idempotence. In every reachable state, handling a Prepare or Commit
\* frame and then the same frame again leaves the store as the first handling left it, and
\* the second handling returns no Prepare or Commit broadcast.
ReplayIdempotent ==
    \A kind \in {"Prepare", "Commit"}, id \in Ids, sender \in Senders :
        LET first  == handle_message(contexts[LocalNode], LocalNode, quorum, kind, id, sender, NoFail)
            replay == handle_message(first.contexts, LocalNode, quorum, kind, id, sender, NoFail)
        IN  /\ replay.contexts = first.contexts
            /\ replay.response.rb \notin {"Prepare", "Commit"}

\* C17 (Spec): in every reachable state, handling an Ack frame leaves the context store,
\* contents and order, as it was, whether or not a context for the id of the Ack is stored.
AckLeavesState ==
    \A id \in Ids, sender \in Senders :
        handle_message(contexts[LocalNode], LocalNode, quorum, "Ack", id, sender, NoFail).contexts
            = contexts[LocalNode]

\* the last frame handled was an Ack for an id whose context is stored
AckForStoredContext == "log_error" \in invoked /\ Has(contexts, LocalNode, response.id)

\* C18 (Spec): handle returns a successful response for every Ack frame.
AckAccepted == [][AckFrame => response'.result = "Ok"]_vars

\* C19 (Spec): in every reachable state, a Commit frame for an id without a stored context
\* returns UnknownBroadcast with that id and leaves the store as it was; the frame that
\* later creates a context for the id leaves it without a commit vote, so the vote of the
\* refused Commit is not recovered.
UnknownCommitRefused ==
    \A id \in Ids :
        ~Has(contexts, LocalNode, id) =>
            /\ \A s \in Senders, fail \in {NoFail, "commit", "committed"} :
                LET out == handle_message(contexts[LocalNode], LocalNode, quorum, "Commit", id, s, fail)
                IN  /\ out.response = UnknownBroadcast(id, LocalNode)
                    /\ out.response.kind # "BROADCAST"
                    /\ out.contexts = contexts[LocalNode]
            /\ \A kind \in {"PrePrepare", "Prepare"}, s \in Senders, fail \in {NoFail, "pre_prepare", "prepare", "prepared"} :
                LET out == handle_message(contexts[LocalNode], LocalNode, quorum, kind, id, s, fail)
                IN  Contains(out.contexts, id) => Lookup(out.contexts, id).commit = {}

\* the last frame handled was a Commit for an id without a stored context
CommitWasRefused ==
    /\ response.result = "UnknownBroadcast" /\ "log_error" \notin invoked
    /\ ~Has(contexts, LocalNode, response.id)

\* C20 (Spec): when the prepare hook fails, handle returns CallbackError without a broadcast
\* and the store is as it was before the frame.
PrepareHookFailureIsClean ==
    [][\A id \in Ids, s \in Senders :
        (Handle("Prepare", id, s, "prepare") /\ "prepare" \in invoked')
        => /\ response'.result = "CallbackError"
           /\ response'.kind # "BROADCAST"
           /\ contexts' = contexts]_vars

\* C21 (Spec): in every reachable state, a PrePrepare whose pre_prepare hook fails returns
\* CallbackError without a broadcast and leaves the context store exactly as it was.
PrePrepareHookFailureIsClean ==
    \A id \in Ids :
        LET out == handle_message(contexts[LocalNode], LocalNode, quorum, "PrePrepare", id, LocalNode, "pre_prepare")
        IN  /\ out.response = CallbackError(id, LocalNode)
            /\ out.response.kind # "BROADCAST"
            /\ out.contexts = contexts[LocalNode]

\* the last PrePrepare failed in its hook while a context for its id was stored
PrePrepareFailedOnStored ==
    /\ response.result = "CallbackError" /\ invoked = {"pre_prepare"}
    /\ Has(contexts, LocalNode, response.id)

\* C22 (Spec): in every reachable state, a Prepare that reaches the prepare quorum at the
\* original sender and whose prepared hook fails returns CallbackError without a broadcast
\* and adds no commit vote, the node's own included.
PreparedHookFailureAborts ==
    \A id \in Ids, s \in Senders :
        LET out == handle_message(contexts[LocalNode], LocalNode, quorum, "Prepare", id, s, "prepared")
        IN  (/\ Has(contexts, LocalNode, id)
             /\ CtxOf(contexts, LocalNode, id).original_sender
             /\ "prepared" \in out.invoked)
            => /\ out.response = CallbackError(id, LocalNode)
               /\ out.response.kind # "BROADCAST"
               /\ Lookup(out.contexts, id).commit = CtxOf(contexts, LocalNode, id).commit

\* the last Prepare failed in the prepared hook of the original sender
PreparedFailedAtOriginalSender ==
    /\ response.result = "CallbackError" /\ "prepared" \in invoked
    /\ Has(contexts, LocalNode, response.id)
    /\ CtxOf(contexts, LocalNode, response.id).original_sender
    /\ LocalNode \notin CtxOf(contexts, LocalNode, response.id).commit

\* C23 (Spec): in every reachable state, a Commit that reaches the commit quorum and whose
\* committed hook fails leaves the context committed, and any Commit for the id handled next
\* is answered with Ack, invokes no hook and leaves the context committed.
CommittedHookFailureStays ==
    \A id \in Ids, s \in Senders :
        LET out == handle_message(contexts[LocalNode], LocalNode, quorum, "Commit", id, s, "committed")
        IN  "committed" \in out.invoked
            => /\ out.response = CallbackError(id, LocalNode)
               /\ Lookup(out.contexts, id).committed
               /\ \A s2 \in Senders, fail \in {NoFail, "commit", "committed"} :
                    LET later == handle_message(out.contexts, LocalNode, quorum, "Commit", id, s2, fail)
                    IN  /\ later.response = ack(id, LocalNode)
                        /\ later.invoked = {}
                        /\ Lookup(later.contexts, id).committed

\* the last Commit failed in the committed hook and the context is committed
CommittedHookFailedStored ==
    /\ response.result = "CallbackError" /\ "committed" \in invoked
    /\ Has(contexts, LocalNode, response.id)
    /\ CtxOf(contexts, LocalNode, response.id).committed

\* C24 (LruSpec): eviction at capacity. In every reachable state with a full store, a
\* Prepare for an id that is not stored evicts exactly the least recently used id, and a
\* Prepare as well as a Commit for the evicted id handled next is answered with
\* UnknownBroadcast.
EvictedIsUnknown ==
    \A j \in LruIds :
        (~Has(contexts, LocalNode, j) /\ Len(contexts[LocalNode]) = capacity)
        => LET evicted == LeastRecentlyUsed(contexts[LocalNode])
               out == handle_message(contexts[LocalNode], LocalNode, quorum, "Prepare", j, LruSender, NoFail)
           IN  /\ StoredIds(out.contexts)
                    = <<j>> \o SubSeq(StoredIds(contexts[LocalNode]), 1, capacity - 1)
               /\ \A kind \in {"Prepare", "Commit"} :
                    handle_message(out.contexts, LocalNode, quorum, kind, evicted, LruSender, NoFail).response.result
                        = "UnknownBroadcast"

\* the stored ids among a sequence of ids, in its order
AmongStored(ids) == SelectSeq(ids, LAMBDA i : Has(contexts, LocalNode, i))

\* C25 (LruSpec), as stated: the id the next overflow evicts is the stored id whose latest
\* handled PrePrepare, Prepare or Commit frame is the oldest.
OldestHandledIsEvicted ==
    Len(contexts[LocalNode]) > 0
    => LeastRecentlyUsed(contexts[LocalNode]) = AmongStored(recent)[Len(AmongStored(recent))]

\* C25 (LruSpec), amended: the store holds the ids of the latest frames that found or
\* created a context, as many as its capacity, in the order of those frames; so the id the
\* next overflow evicts is the stored id whose latest such frame is the oldest. A frame
\* answered with Ack counts; a PrePrepare refused by its hook does not.
OldestUsedIsEvicted ==
    /\ StoredIds(contexts[LocalNode])
            = SubSeq(used, 1, IF Len(used) < capacity THEN Len(used) ELSE capacity)
    /\ Len(contexts[LocalNode]) > 0
        => LeastRecentlyUsed(contexts[LocalNode]) = AmongStored(used)[Len(AmongStored(used))]

\* an id was evicted and the last frame, answered with Ack, was for the context that had
\* been the least recently used
AckKeepsContextHot ==
    /\ Len(used) > capacity
    /\ Len(contexts[LocalNode]) = capacity
    /\ response.rb = "Ack"
    /\ Head(contexts[LocalNode]).id = response.id
    /\ Head(contexts[LocalNode]).committed

CurrentValue == Memberships_current(Memberships).value

PreviousValue ==
    LET out == Memberships_previous(Memberships, overflow_checks)
    IN  [value |-> out.value, panicked |-> out.panicked]

\* C27 (ViewSpec): current() is always defined. After any sequence of calls, with more
\* activations than the history holds, the snapshot numbered current is in the snapshot
\* buffer, and a call of current() does not fail and returns the membership activated last.
CurrentAlwaysDefined ==
    /\ Contains(snapshots, current)
    /\ returned.op = "current" => ~returned.panicked /\ returned.value = activated[current + 1]

\* current() was called after more activations than the history holds
CurrentAfterHistoryOverflow ==
    /\ returned.op = "current"
    /\ current > capacity
    /\ Len(snapshots) = capacity

\* C28 (ViewSpec): previous() is total. No call of previous() fails; on a view without
\* activation (counter 0) it returns None, and after an activation it returns the
\* snapshot that was current immediately before the latest activation.
PreviousIsTotal ==
    returned.op = "previous" =>
        /\ ~returned.panicked
        /\ returned.value = IF current = 0 THEN None ELSE activated[current]

PendingIsSeparate ==
    [][/\ returned'.op \in {"set_pending", "remove_pending", "pending", "pending_mut"} =>
            /\ current' = current
            /\ CurrentValue' = CurrentValue
            /\ PreviousValue' = PreviousValue
       /\ returned'.op = "set_pending" => pending_membership' = returned'.arg
       /\ returned'.op \in {"pending", "pending_mut"} =>
            returned'.value = pending_membership /\ pending_membership' = pending_membership
       /\ returned'.op = "remove_pending" =>
            returned'.value = pending_membership /\ pending_membership' = None
       /\ returned'.op \in {"current", "previous", "update"} =>
            pending_membership' = pending_membership]_vars

\* a second snapshot was set over a pending one, read and then removed
PendingReplacedAndRemoved ==
    /\ returned.op = "remove_pending"
    /\ returned.value # None
    /\ pending_membership = None
    /\ current > 0
    /\ returned.value # CurrentValue

\* C31 (ViewSpec): the membership history is bounded. After any number of activations
\* the snapshot buffer holds at most its capacity; it holds exactly the snapshots written
\* or read most recently, in that order, so a dropped snapshot is one neither written nor
\* read since every snapshot kept was; and the current snapshot is never dropped.
HistoryIsBounded ==
    /\ Len(snapshots) <= capacity
    /\ StoredIds(snapshots) = SubSeq(used, 1, IF Len(used) < capacity THEN Len(used) ELSE capacity)
    /\ Contains(snapshots, current)

\* snapshots were dropped, and a snapshot that was read is kept although a
\* higher-numbered one has been dropped
ReadSnapshotOutlivesNewer ==
    /\ Len(used) > capacity
    /\ Len(snapshots) = capacity
    /\ \E i \in 1..Len(snapshots), j \in (capacity + 1)..Len(used) : snapshots[i].id < used[j]

\* C32 (AcceptSpec): the acceptance policy. For AnyOnline accept(connected, total) is true
\* exactly when connected >= 1, whatever total is; for Threshold(ratio) it is true exactly
\* when connected >= floor(ratio * total), hence true for connected = 0 whenever that
\* floor is 0.
AcceptMatchesPolicy ==
    result.op = "accept" =>
        result.value = IF args.self.kind = "AnyOnline"
                       THEN args.connected_peers >= 1
                       ELSE args.connected_peers >=
                                as_usize(ExactProduct(from_usize(args.total_number_of_peers), args.self.threshold))

\* the default quorum of the specification for a number of members
DefaultQuorum(members) == ((2 * members + 2) \div 3) + 1

\* the members of a context: its peers and the node itself
MemberCount(ctx) == Cardinality(ctx.peers \cup {ctx.local_address})

\* C33 (MembershipSpec): the default quorum policy. For every stored context the prepare
\* and commit thresholds are met exactly when the votes reach ceil(2 * members / 3) + 1,
\* members being the member count of the context; for a context of 4 members that
\* is with 3 votes and not with 2.
DefaultQuorumPolicy ==
    \A ctx \in Ctxs(LocalNode) :
        /\ PrepareQuorum(ctx, quorum) <=> Cardinality(ctx.prepare) >= DefaultQuorum(MemberCount(ctx))
        /\ commit_threshold(quorum, Cardinality(ctx.commit))
                <=> Cardinality(ctx.commit) >= DefaultQuorum(MemberCount(ctx))
        /\ MemberCount(ctx) = 4 => (PrepareQuorum(ctx, quorum) <=> Cardinality(ctx.prepare) >= 3)

\* C34 (CodecSpec): codec round trip. Every frame the writer produces is within the size
\* the reader accepts, and every request the codec writes is read back as an equal value.
CodecRoundTrip ==
    /\ io # NoIo => io.data.len <= max_size
    /\ result.op = "read_request" => result.ok /\ result.msg = args.req

\* C35 (Spec): a node broadcasts COMMIT only after a quorum of PREPARE votes. Whenever the
\* last handle call returned a BROADCAST Commit, the context of that id is stored and prepared.
CommitOnlyWhenPrepared ==
    response.kind = "BROADCAST" /\ response.rb = "Commit" =>
        /\ Contains(contexts[LocalNode], response.id)
        /\ Lookup(contexts[LocalNode], response.id).prepared

\* C36 (MembershipSpec): in every reachable state, handling a PrePrepare whose hook succeeds
\* stores for the id a context with original_sender = true, prepare votes {local id}, no
\* commit votes, prepared = committed = false and the peer list of that moment, and returns
\* a BROADCAST Prepare whose frames go to exactly those peers and carry the payload the hook
\* returned, or the proposed payload if it returned none.
PrePrepareStoresFreshContext ==
    \A id \in Ids, r \in HookResults :
        LET out == handle_message(contexts[LocalNode], LocalNode, quorum, "PrePrepare", id, LocalNode, NoFail)
            members == peer_addresses(LocalNode)
        IN  /\ Contains(out.contexts, id)
            /\ Lookup(out.contexts, id) =
                    [id |-> id, original_sender |-> TRUE, local_address |-> LocalNode, peers |-> members,
                     prepare |-> {LocalNode}, commit |-> {}, prepared |-> FALSE, committed |-> FALSE]
            /\ out.response.result = "Ok" /\ out.response.kind = "BROADCAST" /\ out.response.rb = "Prepare"
            /\ out.response.id = id /\ out.response.peers = members
            /\ Outbound(out.response, unwrap_or(r, ProposedPayload)) =
                    {Frame("Prepare", id, LocalNode, p, IF r = "None" THEN ProposedPayload ELSE r) : p \in members}

\* the last frame was a PrePrepare handled after the peer list had changed
PrePrepareAfterMembershipChange ==
    /\ invoked = {"pre_prepare"} /\ response.rb = "Prepare"
    /\ discovered[LocalNode] = {"B", "D"}
    /\ Has(contexts, LocalNode, response.id)
    /\ CtxOf(contexts, LocalNode, response.id).peers = {"B", "D"}
    /\ CtxOf(contexts, LocalNode, response.id).prepare = {LocalNode}

\* C37 (Spec): in every reachable state, a Prepare for a stored context that holds the local
\* prepare vote and is not prepared adds its sender to the prepare votes and is not answered
\* with a Prepare broadcast, whether its hooks succeed or fail; and a Prepare is answered
\* with a Prepare broadcast only if the local id was not among the prepare votes of the
\* context before the frame and is among them after it.
PrepareAfterOwnVoteIsCounted ==
    \A id \in Ids, s \in Senders, fail \in {NoFail, "prepare", "prepared"} :
        LET out    == handle_message(contexts[LocalNode], LocalNode, quorum, "Prepare", id, s, fail)
            before == IF Has(contexts, LocalNode, id) THEN CtxOf(contexts, LocalNode, id).prepare ELSE {}
            after  == Lookup(out.contexts, id).prepare
        IN  /\ (/\ Has(contexts, LocalNode, id)
                /\ LocalNode \in before
                /\ ~CtxOf(contexts, LocalNode, id).prepared)
               => /\ after = before \cup {s}
                  /\ out.response.rb # "Prepare"
            /\ out.response.rb = "Prepare"
               => /\ out.response.kind = "BROADCAST"
                  /\ LocalNode \notin before
                  /\ after = before \cup {s, LocalNode}

\* the last Prepare found the local vote in a context that was not prepared, was counted
\* and answered with Ack, and the context is still short of the quorum
CountedWithoutRebroadcast ==
    /\ response.rb = "Ack" /\ invoked = {"prepare"}
    /\ Has(contexts, LocalNode, response.id)
    /\ ~CtxOf(contexts, LocalNode, response.id).prepared
    /\ CtxOf(contexts, LocalNode, response.id).original_sender
    /\ CtxOf(contexts, LocalNode, response.id).prepare = {LocalNode, "C"}

\* C38 (LruSpec): consensus instances are independent. In every reachable state, handling
\* any frame for an id, whatever the outcome of its hooks, leaves the stored context of every other id as it was and creates no
\* context for another id; a context of another id disappears only when the frame inserts
\* a new context into a full store, and then it is the least recently used one.
InstancesAreIndependent ==
    \A f \in ({"PrePrepare"} \X {NoFail, "pre_prepare"}) \cup ({"Prepare"} \X {NoFail, "prepare", "prepared"})
                \cup ({"Commit"} \X {NoFail, "commit", "committed"}) \cup ({"Ack"} \X {NoFail}),
       i \in LruIds, s \in Senders :
        LET store == contexts[LocalNode]
            out   == handle_message(store, LocalNode, quorum, f[1], i, s, f[2])
        IN  \A j \in LruIds \ {i} :
                /\ Contains(out.contexts, j) => Contains(store, j) /\ Lookup(out.contexts, j) = Lookup(store, j)
                /\ (Contains(store, j) /\ ~Contains(out.contexts, j))
                   => /\ ~Contains(store, i) /\ Contains(out.contexts, i)
                      /\ Len(store) = capacity
                      /\ j = LeastRecentlyUsed(store)

\* the store is full after an eviction: the last frame created a context for its id and the
\* least recently used context, of another id, is committed
NewContextBesideCommitted ==
    /\ Len(used) > capacity
    /\ Len(contexts[LocalNode]) = capacity
    /\ response.rb = "Prepare"
    /\ Head(contexts[LocalNode]).id = response.id
    /\ LeastRecentlyUsed(contexts[LocalNode]) # response.id
    /\ CtxOf(contexts, LocalNode, LeastRecentlyUsed(contexts[LocalNode])).committed

====